---------------------------- MODULE Spec2Model ----------------------------
(***************************************************************************)
(* A model of the import pipeline of coach (src/src/main.rs): the time     *)
(* codec time_to_miliseconds, the style table convert_style, the entries   *)
(* importer (import_meet_entries, import_swimmer, import_times,            *)
(* import_time, register_load) and the results importer                    *)
(* (import_meet_results, search_swimmer_by_name).                          *)
(*                                                                         *)
(* Text is modelled as a sequence of one-character strings, so that        *)
(* split, trim, slicing, integer parsing and the regular expression are    *)
(* computed character by character as the code computes them.  The model   *)
(* covers ASCII text: one character is one byte, which is what the byte    *)
(* slice &time[..8] of the code assumes.                                   *)
(***************************************************************************)
EXTENDS Integers, Sequences, FiniteSets, TLC

(***************************************************************************)
(* Characters and the str helpers of the Rust standard library the code    *)
(* calls.                                                                  *)
(***************************************************************************)
DigitChars == <<"0", "1", "2", "3", "4", "5", "6", "7", "8", "9">>

Digits == {DigitChars[i] : i \in 1..10}

DigitVal(c) == (CHOOSE i \in 1..10 : DigitChars[i] = c) - 1

\* char::is_whitespace (the Unicode property White_Space) on ASCII: the blank
\* and U+0009..U+000D.  The vertical tab U+000B has no escape and stands in
\* the last string as the character itself.
Whitespace == {" ", "\t", "\n", "\f", "\r", ""}

LowerChars == <<"a", "b", "c", "d", "e", "f", "g", "h", "i", "j", "k", "l", "m",
                "n", "o", "p", "q", "r", "s", "t", "u", "v", "w", "x", "y", "z">>

UpperChars == <<"A", "B", "C", "D", "E", "F", "G", "H", "I", "J", "K", "L", "M",
                "N", "O", "P", "Q", "R", "S", "T", "U", "V", "W", "X", "Y", "Z">>

\* char::to_uppercase / to_lowercase on ASCII.
UpperOf(c) == IF \E k \in 1..26 : LowerChars[k] = c
              THEN UpperChars[CHOOSE k \in 1..26 : LowerChars[k] = c]
              ELSE c

LowerOf(c) == IF \E k \in 1..26 : UpperChars[k] = c
              THEN LowerChars[CHOOSE k \in 1..26 : UpperChars[k] = c]
              ELSE c

\* str::to_uppercase
to_uppercase(s) == [i \in 1..Len(s) |-> UpperOf(s[i])]

to_lowercase(s) == [i \in 1..Len(s) |-> LowerOf(s[i])]

\* str::split(c), collected: the segments between the occurrences of c.  The
\* empty text splits into one empty segment.
RECURSIVE split(_, _)
split(s, c) ==
    IF \E i \in 1..Len(s) : s[i] = c
    THEN LET i == CHOOSE k \in 1..Len(s) :
                      s[k] = c /\ \A j \in 1..(k - 1) : s[j] # c
         IN  <<SubSeq(s, 1, i - 1)>> \o split(SubSeq(s, i + 1, Len(s)), c)
    ELSE <<s>>

\* Iterator::next, nth(1) and last of a split, which always has a first and a
\* last segment; nth(1) is None when the separator does not occur.
split_next(s, c) == split(s, c)[1]

split_last(s, c) == LET p == split(s, c) IN p[Len(p)]

split_has_nth1(s, c) == Len(split(s, c)) >= 2

split_nth1(s, c) == split(s, c)[2]

\* str::trim
RECURSIVE trim_start(_)
trim_start(s) ==
    IF Len(s) > 0 /\ s[1] \in Whitespace THEN trim_start(Tail(s)) ELSE s

RECURSIVE trim_end(_)
trim_end(s) ==
    IF Len(s) > 0 /\ s[Len(s)] \in Whitespace
    THEN trim_end(SubSeq(s, 1, Len(s) - 1))
    ELSE s

trim(s) == trim_end(trim_start(s))

\* str::ends_with(char)
ends_with(s, c) == Len(s) > 0 /\ s[Len(s)] = c

(***************************************************************************)
(* str::parse::<i32>: an optional sign, then one or more decimal digits,   *)
(* within the range of i32.  ok is FALSE for Err.  The range is decided on *)
(* the digits, so that no number beyond i32 is ever computed.              *)
(***************************************************************************)
I32Max == 2147483647

I32MaxDigits == <<"2", "1", "4", "7", "4", "8", "3", "6", "4", "7">>

I32MinDigits == <<"2", "1", "4", "7", "4", "8", "3", "6", "4", "8">>

RECURSIVE DecimalValue(_)
DecimalValue(ds) ==
    IF Len(ds) = 0 THEN 0
    ELSE 10 * DecimalValue(SubSeq(ds, 1, Len(ds) - 1)) + DigitVal(ds[Len(ds)])

RECURSIVE strip_zeros(_)
strip_zeros(ds) ==
    IF Len(ds) > 0 /\ ds[1] = "0" THEN strip_zeros(Tail(ds)) ELSE ds

\* a <= b for two digit sequences of the same length
digits_le(a, b) ==
    \/ a = b
    \/ \E i \in 1..Len(a) : /\ DigitVal(a[i]) < DigitVal(b[i])
                            /\ \A j \in 1..(i - 1) : a[j] = b[j]

ParseErr == [ok |-> FALSE, val |-> 0]

\* the value of the digits sig, which have no leading zero
parse_magnitude(neg, sig) ==
    IF Len(sig) > 10 THEN ParseErr
    ELSE IF Len(sig) = 10 /\ ~digits_le(sig, I32MaxDigits)
    THEN (IF neg /\ sig = I32MinDigits
          THEN [ok |-> TRUE, val |-> (-I32Max) - 1] ELSE ParseErr)
    ELSE [ok |-> TRUE,
          val |-> IF neg THEN -DecimalValue(sig) ELSE DecimalValue(sig)]

\* ds: the text after its sign
parse_unsigned(neg, ds) ==
    IF Len(ds) = 0 \/ \E i \in 1..Len(ds) : ds[i] \notin Digits
    THEN ParseErr
    ELSE parse_magnitude(neg, strip_zeros(ds))

parse_i32(s) ==
    parse_unsigned(Len(s) > 0 /\ s[1] = "-",
                   IF Len(s) > 0 /\ s[1] \in {"+", "-"} THEN Tail(s) ELSE s)

\* whether a * k (k > 0) and a + b stay within i32
mul_fits(a, k) == a <= I32Max \div k /\ a >= -(I32Max \div k)

add_fits(a, b) ==
    IF b >= 0 THEN a <= I32Max - b ELSE a >= ((-I32Max) - 1) - b

\* i32::wrapping_add and wrapping_mul by k >= 0, which is what + and * are in
\* a build without overflow checks: the result modulo 2^32, computed so that
\* no number beyond i32 appears on the way.
wrapping_add(a, b) ==
    IF add_fits(a, b) THEN a + b
    ELSE IF b >= 0 THEN ((a - I32Max) - 1) + ((b - I32Max) - 1)
    ELSE ((a + I32Max) + 1) + ((b + I32Max) + 1)

RECURSIVE wrapping_mul(_, _)
wrapping_mul(a, k) ==
    IF k = 0 THEN 0
    ELSE IF k % 2 = 0
    THEN wrapping_add(wrapping_mul(a, k \div 2), wrapping_mul(a, k \div 2))
    ELSE wrapping_add(a, wrapping_mul(a, k - 1))

(***************************************************************************)
(* time_to_miliseconds.  panic is TRUE where the code unwraps a None or an *)
(* Err: the seconds segment and the last '.'-segment are unwrapped, the    *)
(* minutes segment falls back to 0.  overflow is TRUE where the i32        *)
(* arithmetic of line 535 overflows: a build with overflow checks panics   *)
(* there, a build without returns val, the wrapped result.  It takes a     *)
(* text of 9 characters or more, and every caller passes at most           *)
(* TimeWidth = 8.                                                          *)
(***************************************************************************)
TimePanic == [panic |-> TRUE, overflow |-> FALSE, val |-> 0]

\* line 535 in wrapping arithmetic
TimeOverflow(m, sec, ms) ==
    [panic |-> FALSE, overflow |-> TRUE,
     val |-> wrapping_add(wrapping_add(wrapping_mul(m, 60000),
                                       wrapping_mul(sec, 1000)),
                          wrapping_mul(ms, 10))]

\* whether the call ends in a panic, in a build with overflow checks
\* (checks = TRUE) or without
time_panics(r, checks) == r.panic \/ (checks /\ r.overflow)

\* lines 514-523: Err(e) => 0
unwrap_or_zero(r) == IF r.ok THEN r.val ELSE 0

\* line 535 with the last segment taken for milliseconds
time_sum_millis(m, sec, ms) ==
    IF ~sec.ok \/ ~ms.ok THEN TimePanic
    ELSE [panic |-> FALSE, overflow |-> FALSE,
          val |-> m * 60000 + sec.val * 1000 + ms.val]

\* line 535, on the three parsed segments (sec and ms are unwrapped)
time_sum(m, sec, ms) ==
    IF ~sec.ok \/ ~ms.ok THEN TimePanic
    ELSE IF ~(/\ mul_fits(m, 60000) /\ mul_fits(sec.val, 1000)
              /\ mul_fits(ms.val, 10)
              /\ add_fits(m * 60000, sec.val * 1000)
              /\ add_fits(m * 60000 + sec.val * 1000, ms.val * 10))
    THEN TimeOverflow(m, sec.val, ms.val)
    ELSE [panic |-> FALSE, overflow |-> FALSE,
          val |-> m * 60000 + sec.val * 1000 + ms.val * 10]

time_to_miliseconds(time) ==
    IF Len(time) = 0 THEN [panic |-> FALSE, overflow |-> FALSE, val |-> 0]
    ELSE IF ~split_has_nth1(time, ":") THEN TimePanic
    ELSE time_sum(unwrap_or_zero(parse_i32(split_next(time, ":"))),
                  parse_i32(split_next(split_nth1(time, ":"), ".")),
                  parse_i32(split_last(time, ".")))

(***************************************************************************)
(* convert_style: the match of the code; the catch-all arm returns the     *)
(* empty text.                                                             *)
(***************************************************************************)
UnknownStyle == ""

KnownStyles == {"FREESTYLE", "BACKSTROKE", "BREASTSTROKE", "BUTTERFLY", "MEDLEY"}

\* the table with the arm "FL" written "Fl"
convert_style_fl(style) ==
    CASE style = <<"F", "r">> -> "FREESTYLE"
      [] style = <<"F", "r", "e", "e">> -> "FREESTYLE"
      [] style = <<"B", "k">> -> "BACKSTROKE"
      [] style = <<"B", "a", "c", "k">> -> "BACKSTROKE"
      [] style = <<"B", "r">> -> "BREASTSTROKE"
      [] style = <<"B", "r", "e", "a", "s", "t">> -> "BREASTSTROKE"
      [] style = <<"F", "l">> -> "BUTTERFLY"
      [] style = <<"F", "l", "y">> -> "BUTTERFLY"
      [] style = <<"I", "M">> -> "MEDLEY"
      [] style = <<"I", ".", "M">> -> "MEDLEY"
      [] OTHER -> UnknownStyle

convert_style(style) ==
    CASE style = <<"F", "r">> -> "FREESTYLE"
      [] style = <<"F", "r", "e", "e">> -> "FREESTYLE"
      [] style = <<"B", "k">> -> "BACKSTROKE"
      [] style = <<"B", "a", "c", "k">> -> "BACKSTROKE"
      [] style = <<"B", "r">> -> "BREASTSTROKE"
      [] style = <<"B", "r", "e", "a", "s", "t">> -> "BREASTSTROKE"
      [] style = <<"F", "L">> -> "BUTTERFLY"
      [] style = <<"F", "l", "y">> -> "BUTTERFLY"
      [] style = <<"I", "M">> -> "MEDLEY"
      [] style = <<"I", ".", "M">> -> "MEDLEY"
      [] OTHER -> UnknownStyle

(***************************************************************************)
(* NaiveDate::parse_from_str(text, "%b-%d-%y") of chrono: a three-letter   *)
(* month name in any case, '-', one or two day digits, '-', one or two     *)
(* year digits, nothing after; a numeric item skips leading whitespace.    *)
(* A two-digit year below 70 is 20yy, otherwise 19yy.  The day must exist  *)
(* in the month.  A date is <<year, month, day>>.                          *)
(***************************************************************************)
MonthNames == << <<"j", "a", "n">>, <<"f", "e", "b">>, <<"m", "a", "r">>,
                 <<"a", "p", "r">>, <<"m", "a", "y">>, <<"j", "u", "n">>,
                 <<"j", "u", "l">>, <<"a", "u", "g">>, <<"s", "e", "p">>,
                 <<"o", "c", "t">>, <<"n", "o", "v">>, <<"d", "e", "c">> >>

DaysIn(y, m) ==
    IF m = 2 THEN (IF y % 4 = 0 /\ (y % 100 # 0 \/ y % 400 = 0) THEN 29 ELSE 28)
    ELSE IF m \in {4, 6, 9, 11} THEN 30 ELSE 31

DateErr == [ok |-> FALSE, date |-> <<0, 0, 0>>]

\* scan::number(s, 1, 2): the leading one or two digits of s
scan_digits2(s) ==
    IF Len(s) >= 2 /\ s[1] \in Digits /\ s[2] \in Digits
    THEN [ok |-> TRUE, val |-> DecimalValue(SubSeq(s, 1, 2)),
          rest |-> SubSeq(s, 3, Len(s))]
    ELSE IF Len(s) >= 1 /\ s[1] \in Digits
    THEN [ok |-> TRUE, val |-> DigitVal(s[1]), rest |-> Tail(s)]
    ELSE [ok |-> FALSE, val |-> 0, rest |-> s]

\* a numeric item: leading whitespace is skipped
scan_number2(s) == scan_digits2(trim_start(s))

\* the month a lower-case three-letter word names; 0 for none
month_of(w) ==
    IF \E m \in 1..12 : MonthNames[m] = w
    THEN CHOOSE m \in 1..12 : MonthNames[m] = w
    ELSE 0

make_date(y, m, d) ==
    IF d < 1 \/ d > DaysIn(y, m) THEN DateErr
    ELSE [ok |-> TRUE, date |-> <<y, m, d>>]

date_after_year(m, d, yy) ==
    IF ~yy.ok \/ Len(yy.rest) # 0 THEN DateErr
    ELSE make_date(IF yy.val < 70 THEN 2000 + yy.val ELSE 1900 + yy.val, m, d)

date_after_day(m, d) ==
    IF ~d.ok \/ Len(d.rest) = 0 \/ d.rest[1] # "-" THEN DateErr
    ELSE date_after_year(m, d.val, scan_number2(Tail(d.rest)))

date_after_month(m, rest) ==
    IF m = 0 \/ Len(rest) = 0 \/ rest[1] # "-" THEN DateErr
    ELSE date_after_day(m, scan_number2(Tail(rest)))

parse_date(s) ==
    IF Len(s) < 3 THEN DateErr
    ELSE date_after_month(month_of(to_lowercase(SubSeq(s, 1, 3))),
                          SubSeq(s, 4, Len(s)))

(***************************************************************************)
(* The storage engine.  swimmer and swimmer_time are sets of rows.  The    *)
(* statements of the code are "insert ... on conflict do nothing"; the     *)
(* conflict targets are the unique keys of the tables, which the schema    *)
(* (storage/migrations) declares: the swimmer id, and the performance key  *)
(* (swimmer, style, distance, course, time).                               *)
(***************************************************************************)
SwimmerKey(r) == r.id

TimeKey(r) == <<r.swimmer, r.style, r.distance, r.course, r.time_official>>

\* insert into swimmer ... on conflict (id) do update: the last write wins
insert_swimmer_update(tbl, r) ==
    {x \in tbl : SwimmerKey(x) # SwimmerKey(r)} \cup {r}

\* insert into swimmer with no conflict clause, on a table with no unique key
insert_swimmer_always(tbl, r) == tbl \cup {r}

\* insert into swimmer ... on conflict do nothing
insert_swimmer(tbl, r) ==
    IF \E x \in tbl : SwimmerKey(x) = SwimmerKey(r) THEN tbl ELSE tbl \cup {r}

\* insert into swimmer_time ... on conflict (key) do update: the last write wins
insert_time_update(tbl, r) ==
    {x \in tbl : TimeKey(x) # TimeKey(r)} \cup {r}

\* insert into swimmer_time ... on conflict do nothing
insert_time(tbl, r) ==
    IF \E x \in tbl : TimeKey(x) = TimeKey(r) THEN tbl ELSE tbl \cup {r}

(***************************************************************************)
(* A csv::StringRecord is the sequence of its fields; row.get(n) is field  *)
(* n + 1 when the record has it.  A record of the reader is                *)
(* [ok, f]: ok is FALSE for the Err the reader yields for a malformed row. *)
(***************************************************************************)
has(f, n) == n < Len(f)

col(f, n) == f[n + 1]

\* &time[..8]: the first TimeWidth bytes; panics on a shorter text.
TimeWidth == 8

(***************************************************************************)
(* import_swimmer.  panic: an unwrap of a missing column.  ok: Ok(id) or   *)
(* Err(e); on Err the insert is not reached.                               *)
(***************************************************************************)
\* lines 172-200, on the parsed birth date
import_swimmer_born(tbl, f, birth) ==
    IF ~birth.ok
    THEN [panic |-> FALSE, ok |-> FALSE, id |-> <<>>, tbl |-> tbl]
    ELSE [panic |-> FALSE, ok |-> TRUE, id |-> trim(col(f, 0)),
          tbl |-> insert_swimmer(tbl,
                     [id |-> trim(col(f, 0)),
                      name_first |-> split_last(col(f, 4), " "),
                      name_last |-> split_next(col(f, 4), " "),
                      gender |-> to_uppercase(col(f, 5)),
                      birth_date |-> birth.date])]

import_swimmer(tbl, f) ==
    IF ~has(f, 7) THEN [panic |-> TRUE, ok |-> FALSE, id |-> <<>>, tbl |-> tbl]
    ELSE import_swimmer_born(tbl, f, parse_date(col(f, 7)))

(***************************************************************************)
(* import_time: encode the time, then insert.  panic: time_to_miliseconds  *)
(* panicked.  checks: the build has overflow checks.                       *)
(***************************************************************************)
\* lines 292-307, on the encoded time
import_time_encoded(tbl, swimmer_id, style, distance, course, ms, best_time_date, checks) ==
    IF time_panics(ms, checks) THEN [panic |-> TRUE, tbl |-> tbl]
    ELSE [panic |-> FALSE,
          tbl |-> insert_time(tbl,
                     [swimmer |-> swimmer_id, style |-> style,
                      distance |-> distance, course |-> course,
                      time_official |-> ms.val, time_date |-> best_time_date])]

import_time(tbl, swimmer_id, style, distance, course, best_time, best_time_date, checks) ==
    import_time_encoded(tbl, swimmer_id, style, distance, course,
                        time_to_miliseconds(best_time), best_time_date, checks)

(***************************************************************************)
(* import_times, in the two parts its await on the SHORT insert separates. *)
(* Each part yields [panic, tbl, next]: next is "long" when the function   *)
(* goes on to the LONG slot and "return" when it returns.                  *)
(***************************************************************************)
event_distance(f) == parse_i32(split_next(col(f, 9), " "))

event_style(f) == convert_style(split_last(col(f, 9), " "))

TimesPanic(tbl) == [panic |-> TRUE, tbl |-> tbl, next |-> "return"]

TimesReturn(tbl) == [panic |-> FALSE, tbl |-> tbl, next |-> "return"]

TimesInserted(r, next) == [panic |-> r.panic, tbl |-> r.tbl, next |-> next]

\* lines 257-278, on the parsed date of the LONG time
import_long_dated(tbl, f, d, checks) ==
    IF ~d.ok THEN TimesReturn(tbl)
    ELSE TimesInserted(import_time(tbl, col(f, 0), event_style(f),
                                   event_distance(f).val, "LONG",
                                   SubSeq(col(f, 14), 1, TimeWidth), d.date,
                                   checks),
                       "return")

\* lines 246-278: the LONG slot
import_times_long(tbl, f, checks) ==
    IF ~has(f, 14) THEN TimesReturn(tbl)
    ELSE IF Len(col(f, 14)) = 0 THEN TimesReturn(tbl)
    ELSE IF Len(col(f, 14)) < TimeWidth THEN TimesPanic(tbl)
    ELSE IF ~has(f, 15) THEN TimesPanic(tbl)
    ELSE import_long_dated(tbl, f, parse_date(col(f, 15)), checks)

\* lines 221-243, on the parsed date of the SHORT time
import_short_dated(tbl, f, d, checks) ==
    IF ~d.ok THEN TimesReturn(tbl)
    ELSE TimesInserted(import_time(tbl, col(f, 0), event_style(f),
                                   event_distance(f).val, "SHORT",
                                   SubSeq(col(f, 12), 1, TimeWidth), d.date,
                                   checks),
                       "long")

\* lines 203-244: the event descriptor and the SHORT slot.  With an empty
\* SHORT time the function runs on into the LONG slot without an await.
import_times_short(tbl, f, checks) ==
    IF ~has(f, 9) THEN TimesPanic(tbl)
    ELSE IF ~event_distance(f).ok THEN TimesPanic(tbl)
    ELSE IF ~has(f, 12) THEN TimesReturn(tbl)
    ELSE IF Len(col(f, 12)) = 0 THEN import_times_long(tbl, f, checks)
    ELSE IF Len(col(f, 12)) < TimeWidth THEN TimesPanic(tbl)
    ELSE IF ~has(f, 13) THEN TimesPanic(tbl)
    ELSE import_short_dated(tbl, f, parse_date(col(f, 13)), checks)

\* register_load: the audit row.  The elapsed wall-clock time is not modelled;
\* the comma-joined list has the set's iteration order, so the set stands for it.
audit_row(swimmers, num_entries) ==
    [num_swimmers |-> Cardinality(swimmers), num_entries |-> num_entries,
     swimmers |-> swimmers]

(***************************************************************************)
(* State.                                                                  *)
(*                                                                         *)
(* The storage engine: swimmer_tbl, swimmer_time_tbl (sets of rows) and    *)
(* entries_load (the audit rows in insertion order).                       *)
(*                                                                         *)
(* One import_meet_entries call per p in Procs: e_files[p] is form.files   *)
(* (each file the sequence of the records its csv reader yields), e_pc[p]  *)
(* the position of the call, e_file[p] and e_row[p] the file and the       *)
(* record it is at, e_swimmers[p] and e_num[p] the locals swimmers and     *)
(* num_entries.                                                            *)
(*                                                                         *)
(* One import_meet_results call: r_files is form.files (each with its     *)
(* file name, whether its bytes are UTF-8, and the rows of its document),  *)
(* r_file the file the call is at, r_doc the rows of the parsed document   *)
(* of that file (each a sequence of cells), r_pc the position of the call, *)
(* r_row the row it is at, r_swimmer and r_valid the locals swimmer and    *)
(* valid_swimmer, r_locals the row-scoped locals as the last step left     *)
(* them, r_out the lines printed to the standard output.                   *)
(*                                                                         *)
(* c_fn, c_in, c_out: one call of a pure function and its result.          *)
(***************************************************************************)
VARIABLES swimmer_tbl, swimmer_time_tbl, entries_load,
          e_files, e_pc, e_file, e_row, e_swimmers, e_num,
          r_files, r_file, r_doc, r_pc, r_row, r_swimmer, r_valid, r_locals,
          r_out,
          c_fn, c_in, c_out

store_vars == <<swimmer_tbl, swimmer_time_tbl, entries_load>>

e_vars == <<e_files, e_pc, e_file, e_row, e_swimmers, e_num>>

r_vars == <<r_files, r_file, r_doc, r_pc, r_row, r_swimmer, r_valid, r_locals,
           r_out>>

c_vars == <<c_fn, c_in, c_out>>

vars == <<store_vars, e_vars, r_vars, c_vars>>

Procs == {1, 2}

(***************************************************************************)
(* import_meet_entries.  Its steps are the stretches of code between two   *)
(* awaits on the storage engine.                                           *)
(***************************************************************************)
CurFile(p) == e_files[p][e_file[p]]

CurRecord(p) == CurFile(p)[e_row[p]]

\* where the call stands once record e_row[p] is dealt with
AfterRecord(p) == IF e_row[p] < Len(CurFile(p)) THEN "row" ELSE "register"

\* lines 125-134: the request arrives; the first file is opened.
ReceiveEntries(p) ==
    /\ e_pc[p] = "idle"
    /\ e_pc' = [e_pc EXCEPT ![p] =
                   IF Len(e_files[p]) = 0 THEN "done"
                   ELSE IF Len(e_files[p][1]) = 0 THEN "register" ELSE "row"]
    /\ e_file' = [e_file EXCEPT ![p] = 1]
    /\ e_row' = [e_row EXCEPT ![p] = 1]
    /\ e_swimmers' = [e_swimmers EXCEPT ![p] = {}]
    /\ e_num' = [e_num EXCEPT ![p] = 0]
    /\ UNCHANGED <<store_vars, e_files, r_vars, c_vars>>

\* line 147: an Err record is logged and skipped.
SkipMalformed(p) ==
    /\ e_pc[p] = "row"
    /\ ~CurRecord(p).ok
    /\ e_pc' = [e_pc EXCEPT ![p] = AfterRecord(p)]
    /\ e_row' = [e_row EXCEPT ![p] = @ + 1]
    /\ UNCHANGED <<store_vars, e_files, e_file, e_swimmers, e_num, r_vars, c_vars>>

\* lines 137-143: import_swimmer on an Ok record, and the insert of the id
\* into swimmers.  r is what import_swimmer yields.
SwimmerImported(p, r) ==
    /\ swimmer_tbl' = r.tbl
    /\ e_pc' = [e_pc EXCEPT ![p] = IF r.panic THEN "panicked" ELSE "times"]
    /\ e_swimmers' = [e_swimmers EXCEPT ![p] = IF r.ok THEN @ \cup {r.id} ELSE @]

ImportSwimmer(p) ==
    /\ e_pc[p] = "row"
    /\ CurRecord(p).ok
    /\ SwimmerImported(p, import_swimmer(swimmer_tbl, CurRecord(p).f))
    /\ UNCHANGED <<swimmer_time_tbl, entries_load, e_files, e_file, e_row, e_num,
                   r_vars, c_vars>>

\* lines 144-145 with num_entries incremented only for a record that stored a
\* performance
TimesImportedStored(p, r) ==
    /\ swimmer_time_tbl' = r.tbl
    /\ e_pc' = [e_pc EXCEPT ![p] =
                   IF r.panic THEN "panicked"
                   ELSE IF r.next = "long" THEN "times_long"
                   ELSE AfterRecord(p)]
    /\ e_row' = [e_row EXCEPT ![p] =
                    IF ~r.panic /\ r.next = "return" THEN @ + 1 ELSE @]
    /\ e_num' = [e_num EXCEPT ![p] =
                    IF ~r.panic /\ r.next = "return"
                       /\ \E t \in r.tbl : t.swimmer = col(CurRecord(p).f, 0)
                    THEN @ + 1 ELSE @]

\* lines 144-145: what a part of import_times yields, r, takes effect; when
\* import_times returns, num_entries is incremented and the loop goes on.
TimesImported(p, r) ==
    /\ swimmer_time_tbl' = r.tbl
    /\ e_pc' = [e_pc EXCEPT ![p] =
                   IF r.panic THEN "panicked"
                   ELSE IF r.next = "long" THEN "times_long"
                   ELSE AfterRecord(p)]
    /\ e_row' = [e_row EXCEPT ![p] =
                    IF ~r.panic /\ r.next = "return" THEN @ + 1 ELSE @]
    /\ e_num' = [e_num EXCEPT ![p] =
                    IF ~r.panic /\ r.next = "return" THEN @ + 1 ELSE @]

\* import_times up to its first insert, or to its return, in a build with
\* overflow checks or in one without
ImportTimesShort(p) ==
    /\ e_pc[p] = "times"
    /\ \E checks \in BOOLEAN :
          TimesImported(p, import_times_short(swimmer_time_tbl, CurRecord(p).f,
                                              checks))
    /\ UNCHANGED <<swimmer_tbl, entries_load, e_files, e_file, e_swimmers,
                   r_vars, c_vars>>

\* import_times after the SHORT insert
ImportTimesLong(p) ==
    /\ e_pc[p] = "times_long"
    /\ \E checks \in BOOLEAN :
          TimesImported(p, import_times_long(swimmer_time_tbl, CurRecord(p).f,
                                             checks))
    /\ UNCHANGED <<swimmer_tbl, entries_load, e_files, e_file, e_swimmers,
                   r_vars, c_vars>>

\* lines 150-153: register_load once the records of the file are consumed,
\* then the next file (lines 126-134) or the response.
RegisterLoad(p) ==
    /\ e_pc[p] = "register"
    /\ entries_load' = Append(entries_load, audit_row(e_swimmers[p], e_num[p]))
    /\ IF e_file[p] < Len(e_files[p])
       THEN /\ e_file' = [e_file EXCEPT ![p] = @ + 1]
            /\ e_row' = [e_row EXCEPT ![p] = 1]
            /\ e_swimmers' = [e_swimmers EXCEPT ![p] = {}]
            /\ e_num' = [e_num EXCEPT ![p] = 0]
            /\ e_pc' = [e_pc EXCEPT ![p] =
                           IF Len(e_files[p][e_file[p] + 1]) = 0
                           THEN "register" ELSE "row"]
       ELSE /\ e_pc' = [e_pc EXCEPT ![p] = "done"]
            /\ UNCHANGED <<e_file, e_row, e_swimmers, e_num>>
    /\ UNCHANGED <<swimmer_tbl, swimmer_time_tbl, e_files, r_vars, c_vars>>

EntriesNext ==
    \E p \in Procs :
        \/ ReceiveEntries(p)
        \/ SkipMalformed(p)
        \/ ImportSwimmer(p)
        \/ ImportTimesShort(p)
        \/ ImportTimesLong(p)
        \/ RegisterLoad(p)

(***************************************************************************)
(* The rows of a results document.  A cell is [names, value]: the          *)
(* inner_html of its <b> elements, and its own inner_html (read only when  *)
(* the cell has no <b>).                                                   *)
(***************************************************************************)
\* <td><b>John Doe, 12</b></td>
HdrDoe ==
    <<[names |-> <<<<"J", "o", "h", "n", " ", "D", "o", "e", ",", " ", "1", "2">>>>, value |-> <<>>]>>

\* <td><b>Nobody</b></td>: a name of one word
HdrNobody ==
    <<[names |-> <<<<"N", "o", "b", "o", "d", "y">>>>, value |-> <<>>]>>

\* <td><b>Jane Roe</b><b>John Doe</b></td>: two names in one cell
HdrRoeDoe ==
    <<[names |-> <<<<"J", "a", "n", "e", " ", "R", "o", "e">>, <<"J", "o", "h", "n", " ", "D", "o", "e">>>>, value |-> <<>>]>>

\* 01:23.45L | | M 100 Free
DataLong ==
    <<[names |-> <<>>, value |-> <<"0", "1", ":", "2", "3", ".", "4", "5", "L">>],
      [names |-> <<>>, value |-> <<>>],
      [names |-> <<>>, value |-> <<"M", " ", "1", "0", "0", " ", "F", "r", "e", "e">>]>>

\* 00:59.99S | | f 50 Fly
DataShort ==
    <<[names |-> <<>>, value |-> <<"0", "0", ":", "5", "9", ".", "9", "9", "S">>],
      [names |-> <<>>, value |-> <<>>],
      [names |-> <<>>, value |-> <<"f", " ", "5", "0", " ", "F", "l", "y">>]>>

\* 1:23.45L | | M 100 Free: one minute digit
DataNarrow ==
    <<[names |-> <<>>, value |-> <<"1", ":", "2", "3", ".", "4", "5", "L">>],
      [names |-> <<>>, value |-> <<>>],
      [names |-> <<>>, value |-> <<"M", " ", "1", "0", "0", " ", "F", "r", "e", "e">>]>>

\* 01:23x45L | | M 100 Free: no decimal point
DataNoDot ==
    <<[names |-> <<>>, value |-> <<"0", "1", ":", "2", "3", "x", "4", "5", "L">>],
      [names |-> <<>>, value |-> <<>>],
      [names |-> <<>>, value |-> <<"M", " ", "1", "0", "0", " ", "F", "r", "e", "e">>]>>

\* 01:23.45X | | M 200 IM: a suffix that names no course
DataOther ==
    <<[names |-> <<>>, value |-> <<"0", "1", ":", "2", "3", ".", "4", "5", "X">>],
      [names |-> <<>>, value |-> <<>>],
      [names |-> <<>>, value |-> <<"M", " ", "2", "0", "0", " ", "I", "M">>]>>

\* "01:23.45 " | | M 100 Free: a blank suffix
DataBlank ==
    <<[names |-> <<>>, value |-> <<"0", "1", ":", "2", "3", ".", "4", "5", " ">>],
      [names |-> <<>>, value |-> <<>>],
      [names |-> <<>>, value |-> <<"M", " ", "1", "0", "0", " ", "F", "r", "e", "e">>]>>

\* 00:59.99S | | M abc Free
DataBadDistance ==
    <<[names |-> <<>>, value |-> <<"0", "0", ":", "5", "9", ".", "9", "9", "S">>],
      [names |-> <<>>, value |-> <<>>],
      [names |-> <<>>, value |-> <<"M", " ", "a", "b", "c", " ", "F", "r", "e", "e">>]>>

\* 00:59.99S | | M100Free: cell 2 is one word
DataNoSpace ==
    <<[names |-> <<>>, value |-> <<"0", "0", ":", "5", "9", ".", "9", "9", "S">>],
      [names |-> <<>>, value |-> <<>>],
      [names |-> <<>>, value |-> <<"M", "1", "0", "0", "F", "r", "e", "e">>]>>

\* 01:23.45L: a row of one cell
DataOneCell ==
    <<[names |-> <<>>, value |-> <<"0", "1", ":", "2", "3", ".", "4", "5", "L">>]>>

DocRowPool == {HdrDoe, HdrNobody, HdrRoeDoe, DataLong, DataShort, DataNarrow,
               DataNoDot, DataOther, DataBlank, DataBadDistance, DataNoSpace,
               DataOneCell}

SeqsUpTo(S, n) == UNION {[1..k -> S] : k \in 0..n}

\* the most rows in one results document
MaxDocRows == 3

ResultDocs == SeqsUpTo(DocRowPool, MaxDocRows)

\* the documents the parse of bytes that are no UTF-8 may yield: any
\* document (the rows the bytes hold, when the parser goes on past the bytes
\* that are no UTF-8)
UndefinedDocs == ResultDocs

(***************************************************************************)
(* import_meet_results.                                                    *)
(***************************************************************************)
\* NaiveDate::MIN, which no parsed date equals
NaiveDateMin == <<0, 0, 0>>

\* lines 380-386 and 424-430: the swimmer with empty fields
EmptySwimmer ==
    [id |-> <<>>, first_name |-> <<>>, last_name |-> <<>>, gender |-> <<>>,
     birth_date |-> NaiveDateMin]

\* line 370: ^[0-5][0-9]:[0-5][0-9].[0-9]{2}\S$ ; the '.' of the pattern is
\* not escaped and matches any character but a line feed.
re_is_match(v) ==
    /\ Len(v) = 9
    /\ v[1] \in {"0", "1", "2", "3", "4", "5"}
    /\ v[2] \in Digits
    /\ v[3] = ":"
    /\ v[4] \in {"0", "1", "2", "3", "4", "5"}
    /\ v[5] \in Digits
    /\ v[6] # "\n"
    /\ v[7] \in Digits
    /\ v[8] \in Digits
    /\ v[9] \notin Whitespace

\* search_swimmer_by_name: the rows fetch_one may return; empty for
\* Err(RowNotFound).  A name without a second word binds NULL and matches no row.
search_swimmer_by_name(tbl, name) ==
    IF ~split_has_nth1(name, " ") THEN {}
    ELSE LET first_name == split_next(name, " ")
             last_name  == split_nth1(name, " ")
         IN  {[id |-> x.id, first_name |-> trim(first_name),
               last_name |-> trim(last_name), gender |-> x.gender,
               birth_date |-> x.birth_date] :
                  x \in {y \in tbl : y.name_first = first_name
                                     /\ y.name_last = last_name}}

\* lines 392-403: the locals of one row, with swimmer and valid_swimmer, which
\* are carried across the rows of one file.  cell and name are the positions
\* of the iterators over the <td> of the row and over the <b> of the cell;
\* await: the handler is suspended in the lookup of that name.
row_start(swimmer, valid_swimmer) ==
    [swimmer |-> swimmer, valid_swimmer |-> valid_swimmer, panic |-> FALSE,
     cell_idx |-> 0, name_row |-> FALSE, valid_row |-> TRUE,
     swimmer_time |-> [swimmer |-> swimmer, style |-> "", distance |-> 0,
                       course |-> "", time |-> 0],
     cell |-> 1, name |-> 1, await |-> FALSE]

\* lines 416-420: the lookup returned the swimmer s; the loop goes on to the
\* next <b>
name_found(st, s) ==
    [st EXCEPT !.swimmer = s, !.valid_swimmer = TRUE, !.name_row = TRUE,
               !.name = @ + 1, !.await = FALSE]

\* lines 421-433 with a failed lookup that leaves swimmer and valid_swimmer
\* as they were
name_missing_keep(st) == [st EXCEPT !.await = FALSE]

\* lines 421-433: the lookup failed
name_missing(st) ==
    [st EXCEPT !.swimmer = EmptySwimmer, !.valid_swimmer = FALSE,
               !.await = FALSE]

\* lines 447-456, on the encoded time.  checks: the build has overflow checks.
cell_time_encoded(st, value, ms, checks) ==
    IF time_panics(ms, checks) THEN [st EXCEPT !.panic = TRUE]
    ELSE [st EXCEPT !.swimmer_time.time = ms.val,
                    !.swimmer_time.course =
                        IF ends_with(value, "S") THEN "SHORT"
                        ELSE IF ends_with(value, "L") THEN "LONG"
                        ELSE @]

\* lines 445-460: cell 0
cell_time(st, value, checks) ==
    IF re_is_match(value)
    THEN cell_time_encoded(st, value,
                           time_to_miliseconds(SubSeq(value, 1, TimeWidth)),
                           checks)
    ELSE [st EXCEPT !.valid_row = FALSE]

\* lines 462-477, on the parsed distance
cell_event_parsed(st, value, d) ==
    [st EXCEPT !.swimmer_time.swimmer.gender = to_uppercase(split_next(value, " ")),
               !.swimmer_time.distance = d.val,
               !.valid_row = IF d.ok THEN @ ELSE FALSE,
               !.swimmer_time.style = convert_style(split_last(value, " "))]

\* lines 461-478: cell 2
cell_event(st, value) ==
    IF ~split_has_nth1(value, " ") THEN [st EXCEPT !.panic = TRUE]
    ELSE cell_event_parsed(st, value, parse_i32(split_nth1(value, " ")))

\* line 482, and the cell iterator moves on
next_cell(st) ==
    IF st.panic THEN st
    ELSE [st EXCEPT !.cell_idx = @ + 1, !.cell = @ + 1, !.name = 1]

\* lines 442-482
cell_body(st, value, checks) ==
    next_cell(IF st.cell_idx = 0 THEN cell_time(st, value, checks)
              ELSE IF st.cell_idx = 2 THEN cell_event(st, value)
              ELSE st)

\* lines 406-483: the handler runs from the position of st to the next lookup
\* (await) or to the end of the loop over the cells of the row.
RECURSIVE cells_loop(_, _, _)
\* lines 442-483: the body of the cell was run
cell_done(st, cells, checks) ==
    IF st.panic THEN st ELSE cells_loop(st, cells, checks)

\* lines 438-483: the loop over the <b> of the cell has ended
names_done(st, cells, checks) ==
    IF ~st.valid_swimmer \/ st.name_row \/ ~st.valid_row THEN st
    ELSE cell_done(cell_body(st, cells[st.cell].value, checks), cells, checks)

cells_loop(st, cells, checks) ==
    IF st.cell > Len(cells) THEN st
    ELSE IF st.name <= Len(cells[st.cell].names) THEN [st EXCEPT !.await = TRUE]
    ELSE names_done(st, cells, checks)

\* line 410: the name the suspended lookup is called with
lookup_name(st, cells) == split_next(cells[st.cell].names[st.name], ",")

\* lines 411-436: the lookup returns, over the directory tbl as it is now; the
\* set of the states the handler may reach (one per row fetch_one may return)
names_loop(tbl, st, cells, checks) ==
    IF search_swimmer_by_name(tbl, lookup_name(st, cells)) = {}
    THEN {names_done(name_missing(st), cells, checks)}
    ELSE {cells_loop(name_found(st, s), cells, checks) :
             s \in search_swimmer_by_name(tbl, lookup_name(st, cells))}

\* line 485: the row is reported as a performance record
row_accepted(st) == st.valid_swimmer /\ ~st.name_row /\ st.valid_row

\* lines 486-496: the line printed
printed_line(st) ==
    [line |-> "Swimmer",
     id |-> st.swimmer_time.swimmer.id,
     first_name |-> st.swimmer_time.swimmer.first_name,
     last_name |-> st.swimmer_time.swimmer.last_name,
     time |-> st.swimmer_time.time, course |-> st.swimmer_time.course,
     gender |-> st.swimmer_time.swimmer.gender,
     distance |-> st.swimmer_time.distance, style |-> st.swimmer_time.style]

\* line 373: the line printed for a file
printed_file(file_name) == [line |-> "File", name |-> file_name]

\* Option<String>
None == [some |-> FALSE]

Some(x) == [some |-> TRUE, val |-> x]

\* line 372: the request arrives; the loop over its files begins.
ReceiveResults ==
    /\ r_pc = "idle"
    /\ r_file' = 1
    /\ r_pc' = IF Len(r_files) = 0 THEN "done" ELSE "file"
    /\ UNCHANGED <<store_vars, e_vars, r_files, r_doc, r_row, r_swimmer,
                   r_valid, r_locals, r_out, c_vars>>

\* lines 372, 390: the loop over the rows of the document doc has ended or
\* is about to begin
FileOpened(doc) ==
    /\ r_doc' = doc
    /\ r_row' = 1
    /\ r_swimmer' = EmptySwimmer
    /\ r_valid' = TRUE
    /\ IF Len(doc) > 0 THEN r_pc' = "rows" /\ r_file' = r_file
       ELSE IF r_file < Len(r_files) THEN r_pc' = "file" /\ r_file' = r_file + 1
       ELSE r_pc' = "done" /\ r_file' = r_file

\* lines 373-389: one file.  unwrap of the file name panics for a part sent
\* without one; expect panics when the read of the file fails.
\* from_utf8_unchecked on bytes that are no UTF-8 is undefined behaviour: the
\* handler panics or goes on with some document.
OpenFile ==
    /\ r_pc = "file"
    /\ IF ~r_files[r_file].file_name.some
       THEN /\ r_pc' = "panicked"
            /\ UNCHANGED <<r_doc, r_row, r_swimmer, r_valid, r_file, r_out>>
       ELSE /\ r_out' = Append(r_out, printed_file(r_files[r_file].file_name.val))
            /\ \/ /\ r_files[r_file].utf8
                  /\ FileOpened(r_files[r_file].doc)
               \/ /\ ~r_files[r_file].utf8
                  /\ \E doc \in UndefinedDocs : FileOpened(doc)
               \/ /\ r_pc' = "panicked"
                  /\ UNCHANGED <<r_doc, r_row, r_swimmer, r_valid, r_file>>
    /\ UNCHANGED <<store_vars, e_vars, r_files, r_locals, c_vars>>

\* lines 391-498: the handler has run to the state st of the row: suspended
\* in a lookup, panicked, or at the end of the row
RowStep(st) ==
    /\ r_locals' = st
    /\ r_swimmer' = st.swimmer
    /\ r_valid' = st.valid_swimmer
    /\ IF st.panic
       THEN r_pc' = "panicked" /\ UNCHANGED <<r_row, r_file, r_out>>
       ELSE IF st.await
       THEN r_pc' = "lookup" /\ UNCHANGED <<r_row, r_file, r_out>>
       ELSE /\ r_out' = IF row_accepted(st)
                        THEN Append(r_out, printed_line(st)) ELSE r_out
            /\ r_row' = r_row + 1
            /\ IF r_row < Len(r_doc) THEN r_pc' = "rows" /\ r_file' = r_file
               ELSE IF r_file < Len(r_files)
               THEN r_pc' = "file" /\ r_file' = r_file + 1
               ELSE r_pc' = "done" /\ r_file' = r_file
    /\ UNCHANGED <<store_vars, e_vars, r_files, r_doc, c_vars>>

\* lines 391-498: one <tr>, from its first cell to its first lookup or to
\* its end
ProcessRow ==
    /\ r_pc = "rows"
    /\ \E checks \in BOOLEAN :
          RowStep(cells_loop(row_start(r_swimmer, r_valid), r_doc[r_row],
                             checks))

\* lines 411-498: a lookup returns, and the handler runs to the next lookup
\* or to the end of the row.  The lookup reads the directory as it is now.
LookupName ==
    /\ r_pc = "lookup"
    /\ \E checks \in BOOLEAN :
          \E st \in names_loop(swimmer_tbl, r_locals, r_doc[r_row], checks) :
              RowStep(st)

ResultsNext == ReceiveResults \/ OpenFile \/ ProcessRow \/ LookupName

(***************************************************************************)
(* One call of a pure function: c_fn names it, c_in is its argument,       *)
(* c_out = [done, panic, val] its result.                                  *)
(***************************************************************************)
NoResult == [done |-> FALSE, panic |-> FALSE, overflow |-> FALSE, val |-> 0]

CallTimeToMiliseconds ==
    /\ c_fn = "time_to_miliseconds"
    /\ ~c_out.done
    /\ LET r == time_to_miliseconds(c_in)
       IN  c_out' = [done |-> TRUE, panic |-> r.panic, overflow |-> r.overflow,
                     val |-> r.val]
    /\ UNCHANGED <<store_vars, e_vars, r_vars, c_fn, c_in>>

CallConvertStyle ==
    /\ c_fn = "convert_style"
    /\ ~c_out.done
    /\ c_out' = [done |-> TRUE, panic |-> FALSE, overflow |-> FALSE,
                 val |-> convert_style(c_in)]
    /\ UNCHANGED <<store_vars, e_vars, r_vars, c_fn, c_in>>

PureNext == CallTimeToMiliseconds \/ CallConvertStyle

(***************************************************************************)
(* One file imported with no other request in between: the loop of         *)
(* import_meet_entries (lines 133-149) run over all the records, as the    *)
(* effect on [swimmers, times] (the two tables), ids and num (the locals   *)
(* swimmers and num_entries) and panic.  What was written before a panic   *)
(* stays written.  checks: the build has overflow checks.                  *)
(***************************************************************************)
EmptyRun == [swimmers |-> {}, times |-> {}, ids |-> {}, num |-> 0, panic |-> FALSE]

\* r: what the last part of import_times yields
run_returned(run, r) ==
    IF r.panic THEN [run EXCEPT !.times = r.tbl, !.panic = TRUE]
    ELSE [run EXCEPT !.times = r.tbl, !.num = @ + 1]

\* r: what the first part of import_times yields
run_times(run, f, r, checks) ==
    IF r.next = "long" /\ ~r.panic
    THEN run_returned(run, import_times_long(r.tbl, f, checks))
    ELSE run_returned(run, r)

\* r: what import_swimmer yields
run_swimmer(run, f, r, checks) ==
    IF r.panic THEN [run EXCEPT !.panic = TRUE]
    ELSE run_times([run EXCEPT !.swimmers = r.tbl,
                               !.ids = IF r.ok THEN @ \cup {r.id} ELSE @],
                   f, import_times_short(run.times, f, checks), checks)

run_record(run, rec, checks) ==
    IF ~rec.ok THEN run
    ELSE run_swimmer(run, rec.f, import_swimmer(run.swimmers, rec.f), checks)

RECURSIVE run_file(_, _, _)
run_file(run, file, checks) ==
    IF Len(file) = 0 \/ run.panic THEN run
    ELSE run_file(run_record(run, Head(file), checks), Tail(file), checks)

\* the tables a finished request leaves, for the request after it
next_request(run) == [EmptyRun EXCEPT !.swimmers = run.swimmers, !.times = run.times]

(***************************************************************************)
(* Inputs.  The records of an entries file: column 0 the swimmer id, 4 the *)
(* full name, 5 the gender, 7 the birth date, 9 the event, 12 and 13 the   *)
(* SHORT time and its date, 14 and 15 the LONG time and its date.          *)
(***************************************************************************)
MkRow(id, full_name, gender, birth, event, short_time, short_date, long_time, long_date) ==
    [ok |-> TRUE,
     f  |-> <<id, <<>>, <<>>, <<>>, full_name, gender, <<>>, birth, <<>>, event,
              <<>>, <<>>, short_time, short_date, long_time, long_date>>]

\* the Err the csv reader yields for a row with a structural error
MalformedRecord == [ok |-> FALSE, f |-> <<>>]

\* S1 | Doe John | m | Jan-02-00 | 100 Free | 01:05.23 Mar-01-24 | (no long time)
RowDoe ==
    MkRow(<<"S", "1">>,
          <<"D", "o", "e", " ", "J", "o", "h", "n">>,
          <<"m">>,
          <<"J", "a", "n", "-", "0", "2", "-", "0", "0">>,
          <<"1", "0", "0", " ", "F", "r", "e", "e">>,
          <<"0", "1", ":", "0", "5", ".", "2", "3">>,
          <<"M", "a", "r", "-", "0", "1", "-", "2", "4">>,
          <<>>,
          <<>>)

\* S1 | Roe Jane | f | Feb-03-01 | 100 Free | 01:05.23 Apr-02-24 | 01:10.00L May-05-24: the id and the SHORT key of RowDoe, other names and dates
RowRoe ==
    MkRow(<<"S", "1">>,
          <<"R", "o", "e", " ", "J", "a", "n", "e">>,
          <<"f">>,
          <<"F", "e", "b", "-", "0", "3", "-", "0", "1">>,
          <<"1", "0", "0", " ", "F", "r", "e", "e">>,
          <<"0", "1", ":", "0", "5", ".", "2", "3">>,
          <<"A", "p", "r", "-", "0", "2", "-", "2", "4">>,
          <<"0", "1", ":", "1", "0", ".", "0", "0", "L">>,
          <<"M", "a", "y", "-", "0", "5", "-", "2", "4">>)

\* S2 | Poe Ann | F | (birth date "xx") | 50 Fly | 00:31.50 Mar-32-24 | 00:33.10 Jun-01-24: unparseable birth and SHORT dates
RowPoe ==
    MkRow(<<"S", "2">>,
          <<"P", "o", "e", " ", "A", "n", "n">>,
          <<"F">>,
          <<"x", "x">>,
          <<"5", "0", " ", "F", "l", "y">>,
          <<"0", "0", ":", "3", "1", ".", "5", "0">>,
          <<"M", "a", "r", "-", "3", "2", "-", "2", "4">>,
          <<"0", "0", ":", "3", "3", ".", "1", "0">>,
          <<"J", "u", "n", "-", "0", "1", "-", "2", "4">>)

\* "S4 " | Kim Al | m | (no birth date) | 100 Br | 01:20.00 Mar-01-24 | (no long time)
RowKim ==
    MkRow(<<"S", "4", " ">>,
          <<"K", "i", "m", " ", "A", "l">>,
          <<"m">>,
          <<>>,
          <<"1", "0", "0", " ", "B", "r">>,
          <<"0", "1", ":", "2", "0", ".", "0", "0">>,
          <<"M", "a", "r", "-", "0", "1", "-", "2", "4">>,
          <<>>,
          <<>>)

\* S3 | Lee Bo | m | Dec-31-99 | 200 Xx | (no short time) | 02:10.55 Jul-04-23: a style code outside the table
RowLee ==
    MkRow(<<"S", "3">>,
          <<"L", "e", "e", " ", "B", "o">>,
          <<"m">>,
          <<"D", "e", "c", "-", "3", "1", "-", "9", "9">>,
          <<"2", "0", "0", " ", "X", "x">>,
          <<>>,
          <<>>,
          <<"0", "2", ":", "1", "0", ".", "5", "5">>,
          <<"J", "u", "l", "-", "0", "4", "-", "2", "3">>)

\* S3 | Lee Bo | m | Dec-31-99 | abc Free | 01:00.00 Mar-01-24 | (no long time)
RowBadDistance ==
    MkRow(<<"S", "3">>,
          <<"L", "e", "e", " ", "B", "o">>,
          <<"m">>,
          <<"D", "e", "c", "-", "3", "1", "-", "9", "9">>,
          <<"a", "b", "c", " ", "F", "r", "e", "e">>,
          <<"0", "1", ":", "0", "0", ".", "0", "0">>,
          <<"M", "a", "r", "-", "0", "1", "-", "2", "4">>,
          <<>>,
          <<>>)

\* S1 | Doe John | m | Jan-02-00 | 100 Back | 01:xx.23 Mar-01-24 | (no long time)
RowBadTime ==
    MkRow(<<"S", "1">>,
          <<"D", "o", "e", " ", "J", "o", "h", "n">>,
          <<"m">>,
          <<"J", "a", "n", "-", "0", "2", "-", "0", "0">>,
          <<"1", "0", "0", " ", "B", "a", "c", "k">>,
          <<"0", "1", ":", "x", "x", ".", "2", "3">>,
          <<"M", "a", "r", "-", "0", "1", "-", "2", "4">>,
          <<>>,
          <<>>)

\* S2 | Poe Ann | F | Aug-09-10 | 50 Fly | 00:31.50 Mar-02-24 | 00:33.10 Jun-01-24: RowPoe with parseable dates
RowPoeBorn ==
    MkRow(<<"S", "2">>,
          <<"P", "o", "e", " ", "A", "n", "n">>,
          <<"F">>,
          <<"A", "u", "g", "-", "0", "9", "-", "1", "0">>,
          <<"5", "0", " ", "F", "l", "y">>,
          <<"0", "0", ":", "3", "1", ".", "5", "0">>,
          <<"M", "a", "r", "-", "0", "2", "-", "2", "4">>,
          <<"0", "0", ":", "3", "3", ".", "1", "0">>,
          <<"J", "u", "n", "-", "0", "1", "-", "2", "4">>)

\* S6 | Moe Al | m | Jan-02-00 | 100 Free | 01:05.23 Mar-01-24 | 01:xx.00 Mar-01-24: a SHORT time that is stored and a LONG time that is no number
RowLongBad ==
    MkRow(<<"S", "6">>,
          <<"M", "o", "e", " ", "A", "l">>,
          <<"m">>,
          <<"J", "a", "n", "-", "0", "2", "-", "0", "0">>,
          <<"1", "0", "0", " ", "F", "r", "e", "e">>,
          <<"0", "1", ":", "0", "5", ".", "2", "3">>,
          <<"M", "a", "r", "-", "0", "1", "-", "2", "4">>,
          <<"0", "1", ":", "x", "x", ".", "0", "0">>,
          <<"M", "a", "r", "-", "0", "1", "-", "2", "4">>)

RowPool == {RowDoe, RowRoe, RowPoe, RowKim, RowLee, RowBadDistance, RowBadTime,
            RowPoeBorn, RowLongBad, MalformedRecord}

\* the records of the files two concurrent uploads hold
ConcRowPool == {RowDoe, RowRoe, RowLongBad, MalformedRecord}

\* the most records in one entries file
MaxRows == 2

EntryFiles == SeqsUpTo(RowPool, MaxRows)

ConcEntryFiles == SeqsUpTo(ConcRowPool, MaxRows)

(***************************************************************************)
(* Initial states.  The database is empty after the migration; no request  *)
(* has arrived.                                                            *)
(***************************************************************************)
StoreInit ==
    /\ swimmer_tbl = {}
    /\ swimmer_time_tbl = {}
    /\ entries_load = <<>>

EntriesIdle ==
    /\ e_pc = [p \in Procs |-> "idle"]
    /\ e_file = [p \in Procs |-> 1]
    /\ e_row = [p \in Procs |-> 1]
    /\ e_swimmers = [p \in Procs |-> {}]
    /\ e_num = [p \in Procs |-> 0]

ResultsOff ==
    /\ r_files = <<>>
    /\ r_file = 1
    /\ r_doc = <<>>
    /\ r_pc = "off"
    /\ r_row = 1
    /\ r_swimmer = EmptySwimmer
    /\ r_valid = TRUE
    /\ r_locals = row_start(EmptySwimmer, TRUE)
    /\ r_out = <<>>

PureOff ==
    /\ c_fn = "none"
    /\ c_in = <<>>
    /\ c_out = NoResult

\* One upload at a time: request 1 holds one file, or the same file twice
\* (the file uploaded again); request 2 holds no file.
InitSeq ==
    /\ StoreInit /\ EntriesIdle /\ ResultsOff /\ PureOff
    /\ \E f \in EntryFiles :
          e_files \in {[p \in Procs |-> IF p = 1 THEN <<f>> ELSE <<>>],
                       [p \in Procs |-> IF p = 1 THEN <<f, f>> ELSE <<>>]}

SpecSeq == InitSeq /\ [][EntriesNext]_vars

\* The runtime resumes a handler that has not returned (every storage call
\* returns).  Pending(p): the call of p is at an await or not yet started.
\* e_pos is the position of the calls; each step of EntriesNext moves it, and
\* a pending call has a step to take, so a Poll step is a step of a handler.
Pcs == {"idle", "row", "times", "times_long", "register", "done", "panicked"}

Pending(p) == e_pc[p] \in {"idle", "row", "times", "times_long", "register"}

e_pos == <<e_pc, e_file, e_row>>

Poll ==
    /\ \E p \in Procs : Pending(p)
    /\ e_pc' \in [Procs -> Pcs]
    /\ e_file' \in [Procs -> 1..2]
    /\ e_row' \in [Procs -> 1..(MaxRows + 1)]

\* One upload at a time, and a pending handler is eventually resumed.
SpecSeqLive == InitSeq /\ [][EntriesNext]_vars /\ WF_e_pos(Poll)

\* Two uploads at the same time, each of one file.
InitConc ==
    /\ StoreInit /\ EntriesIdle /\ ResultsOff /\ PureOff
    /\ e_files \in [Procs -> {<<f>> : f \in ConcEntryFiles}]

SpecConc == InitConc /\ [][EntriesNext]_vars

\* S5 | Doe John | m | Jan-02-00 | 100 Free | (no times): the names of RowDoe under another id
RowDoeTwin ==
    MkRow(<<"S", "5">>,
          <<"D", "o", "e", " ", "J", "o", "h", "n">>,
          <<"m">>,
          <<"J", "a", "n", "-", "0", "2", "-", "0", "0">>,
          <<"1", "0", "0", " ", "F", "r", "e", "e">>,
          <<>>,
          <<>>,
          <<>>,
          <<>>)

\* the entries files imported before the results document is uploaded
DirectoryFiles == {<<>>, <<RowDoe>>, <<RowDoe, RowDoeTwin>>}

\* the name of an uploaded file, r.htm
FileName == <<"r", ".", "h", "t", "m">>

\* the parts of a results request: a file with a name whose bytes are the
\* document doc, a part sent without a file name, a file whose bytes are no
\* UTF-8
NamedFile(doc) == [file_name |-> Some(FileName), utf8 |-> TRUE, doc |-> doc]

NamelessFile == [file_name |-> None, utf8 |-> TRUE, doc |-> <<>>]

BinaryFile == [file_name |-> Some(FileName), utf8 |-> FALSE, doc |-> <<>>]

\* the documents of the requests of several files, and of the requests that
\* run while an entries import runs
SmallDocs == SeqsUpTo({HdrDoe, HdrRoeDoe, HdrNobody, DataLong}, 2)

FilePool == {NamedFile(doc) : doc \in SmallDocs} \cup {NamelessFile}

\* the requests that hold a file whose bytes are no UTF-8
BinaryRequests ==
    {<<BinaryFile>>, <<NamedFile(<<HdrNobody>>), BinaryFile>>,
     <<BinaryFile, NamedFile(<<DataLong>>)>>}

\* the most files in one results request
MaxFiles == 2

ResultRequests ==
    {<<NamedFile(doc)>> : doc \in ResultDocs} \cup SeqsUpTo(FilePool, MaxFiles)
        \cup BinaryRequests

\* the entries files imported while the results request runs
ConcurrentFiles == {<<RowDoe>>, <<RowRoe, RowDoeTwin>>, <<MalformedRecord>>}

\* no entries import runs while the results request does
QuietInit ==
    /\ e_pc = [p \in Procs |-> "done"]
    /\ e_files[2] = <<>>
    /\ r_files \in ResultRequests

\* the entries request 2 arrives while the results request runs
BusyInit ==
    /\ e_pc = [p \in Procs |-> IF p = 1 THEN "done" ELSE "idle"]
    /\ e_files[2] \in {<<file>> : file \in ConcurrentFiles}
    /\ r_files \in {<<NamedFile(doc)>> : doc \in SmallDocs}

\* The database holds what one finished entries import (request 1) left; a
\* results request is uploaded.
InitResults ==
    /\ \E file \in DirectoryFiles : \E checks \in BOOLEAN :
          /\ swimmer_tbl = run_file(EmptyRun, file, checks).swimmers
          /\ swimmer_time_tbl = run_file(EmptyRun, file, checks).times
          /\ entries_load = <<audit_row(run_file(EmptyRun, file, checks).ids,
                                        run_file(EmptyRun, file, checks).num)>>
          /\ e_files \in [Procs -> {<<file>>} \cup {<<>>}
                                    \cup {<<c>> : c \in ConcurrentFiles}]
          /\ e_files[1] = <<file>>
    /\ QuietInit \/ BusyInit
    /\ e_file = [p \in Procs |-> 1]
    /\ e_row = [p \in Procs |-> 1]
    /\ e_swimmers = [p \in Procs |-> {}]
    /\ e_num = [p \in Procs |-> 0]
    /\ r_file = 1
    /\ r_doc = <<>>
    /\ r_pc = "idle"
    /\ r_row = 1
    /\ r_swimmer = EmptySwimmer
    /\ r_valid = TRUE
    /\ r_locals = row_start(EmptySwimmer, TRUE)
    /\ r_out = <<>>
    /\ PureOff

SpecResults == InitResults /\ [][ResultsNext \/ EntriesNext]_vars

(***************************************************************************)
(* The arguments of the calls of time_to_miliseconds and convert_style.    *)
(***************************************************************************)
ClockDigits == {"0", "1", "2", "3", "4", "9"}

\* the texts dd:dd.dd over ClockDigits
ClockTexts ==
    {<<a, b, ":", c, d, ".", e, g>> : a \in ClockDigits, b \in ClockDigits,
                                      c \in ClockDigits, d \in ClockDigits,
                                      e \in ClockDigits, g \in ClockDigits}

\* "" | "01:xx.34" | "xx:02.34" | "01:02.xx" | "0102.34" | "01:02" | "1:2.3" | ":02.34" | "01:.34" | "01:02." | "+1:+2.+3" | "-1:02.34" | "01:02:03" | "1.5:2.34" | "99:59.99" | "9999:9.9" | "00:59.99" | "01:23.45" | "01:05.23"
OtherTimeTexts ==
    {<<>>,
     <<"0", "1", ":", "x", "x", ".", "3", "4">>,
     <<"x", "x", ":", "0", "2", ".", "3", "4">>,
     <<"0", "1", ":", "0", "2", ".", "x", "x">>,
     <<"0", "1", "0", "2", ".", "3", "4">>,
     <<"0", "1", ":", "0", "2">>,
     <<"1", ":", "2", ".", "3">>,
     <<":", "0", "2", ".", "3", "4">>,
     <<"0", "1", ":", ".", "3", "4">>,
     <<"0", "1", ":", "0", "2", ".">>,
     <<"+", "1", ":", "+", "2", ".", "+", "3">>,
     <<"-", "1", ":", "0", "2", ".", "3", "4">>,
     <<"0", "1", ":", "0", "2", ":", "0", "3">>,
     <<"1", ".", "5", ":", "2", ".", "3", "4">>,
     <<"9", "9", ":", "5", "9", ".", "9", "9">>,
     <<"9", "9", "9", "9", ":", "9", ".", "9">>,
     <<"0", "0", ":", "5", "9", ".", "9", "9">>,
     <<"0", "1", ":", "2", "3", ".", "4", "5">>,
     <<"0", "1", ":", "0", "5", ".", "2", "3">>}

\* "Fr" | "Free" | "Bk" | "Back" | "Br" | "Breast" | "FL" | "Fly" | "IM" | "I.M" | "" | "fr" | "FR" | "free" | "Fl" | "FLY" | "Im" | "I.M." | "IM " | "Medley" | "Xx" | "Bre" | "B" | "Freestyle" | "FREESTYLE"
StyleTexts ==
    {<<"F", "r">>,
     <<"F", "r", "e", "e">>,
     <<"B", "k">>,
     <<"B", "a", "c", "k">>,
     <<"B", "r">>,
     <<"B", "r", "e", "a", "s", "t">>,
     <<"F", "L">>,
     <<"F", "l", "y">>,
     <<"I", "M">>,
     <<"I", ".", "M">>,
     <<>>,
     <<"f", "r">>,
     <<"F", "R">>,
     <<"f", "r", "e", "e">>,
     <<"F", "l">>,
     <<"F", "L", "Y">>,
     <<"I", "m">>,
     <<"I", ".", "M", ".">>,
     <<"I", "M", " ">>,
     <<"M", "e", "d", "l", "e", "y">>,
     <<"X", "x">>,
     <<"B", "r", "e">>,
     <<"B">>,
     <<"F", "r", "e", "e", "s", "t", "y", "l", "e">>,
     <<"F", "R", "E", "E", "S", "T", "Y", "L", "E">>}

InitPure ==
    /\ StoreInit /\ ResultsOff
    /\ e_files = [p \in Procs |-> <<>>]
    /\ e_pc = [p \in Procs |-> "done"]
    /\ e_file = [p \in Procs |-> 1]
    /\ e_row = [p \in Procs |-> 1]
    /\ e_swimmers = [p \in Procs |-> {}]
    /\ e_num = [p \in Procs |-> 0]
    /\ c_out = NoResult
    /\ \/ c_fn = "time_to_miliseconds" /\ c_in \in ClockTexts \cup OtherTimeTexts
       \/ c_fn = "convert_style" /\ c_in \in StyleTexts

SpecPure == InitPure /\ [][PureNext]_vars

(***************************************************************************)
(* The claims.                                                             *)
(***************************************************************************)
Ids(tbl) == {r.id : r \in tbl}

Keys(tbl) == {TimeKey(r) : r \in tbl}

\* the value of the clock text dd:dd.dd, digit by digit
ClockValue(t) ==
    (10 * DigitVal(t[1]) + DigitVal(t[2])) * 60000
    + (10 * DigitVal(t[4]) + DigitVal(t[5])) * 1000
    + (10 * DigitVal(t[7]) + DigitVal(t[8])) * 10

IsClockText(t) ==
    /\ Len(t) = 8
    /\ t[3] = ":" /\ t[6] = "."
    /\ \A i \in {1, 2, 4, 5, 7, 8} : t[i] \in Digits

\* row j of the document holds a name that the directory resolves
RowResolves(j) ==
    \E k \in 1..Len(r_doc[j]) : \E n \in 1..Len(r_doc[j][k].names) :
        search_swimmer_by_name(swimmer_tbl,
                               split_next(r_doc[j][k].names[n], ",")) # {}

\* a step of the results handler, and one that reports a row
ResultsStep == r_pc' # r_pc \/ r_row' # r_row

RowReported == r_pc \in {"rows", "lookup"} /\ r_out' # r_out

\* C1: in the results importer no row is reported as a performance record
\* before a header row of its document whose swimmer lookup succeeded, and the
\* current swimmer is invalid when the first row is processed.
C1_NoRecordBeforeHeader ==
    /\ []((r_pc = "rows" /\ r_row = 1) => ~r_valid)
    /\ [][RowReported => \E j \in 1..(r_row - 1) : RowResolves(j)]_vars

\* C2: swimmer upsert is first-write-wins: a step never removes or changes a
\* stored swimmer, adds a record only under an id not stored before, and the
\* store holds at most one record per id.
C2_SwimmerFirstWriteWins ==
    [][/\ \A r \in swimmer_tbl : r \in swimmer_tbl'
       /\ \A r \in swimmer_tbl' \ swimmer_tbl : r.id \notin Ids(swimmer_tbl)
       /\ Cardinality(Ids(swimmer_tbl')) = Cardinality(swimmer_tbl')]_vars

\* an upsert has just run for an id stored under another first name
C2_Witness ==
    \E p \in Procs :
        /\ e_pc[p] = "times"
        /\ parse_date(col(CurRecord(p).f, 7)).ok
        /\ \E r \in swimmer_tbl :
              /\ r.id = trim(col(CurRecord(p).f, 0))
              /\ r.name_first # split_last(col(CurRecord(p).f, 4), " ")

\* C3: performance insert suppresses duplicates: a step never removes or
\* changes a stored performance, adds a record only under a key (swimmer,
\* style, distance, course, time) not stored before, and no two stored
\* records share a key, so an insert under a stored key leaves the set and
\* its size as they were.
C3_TimeDuplicateSuppressed ==
    [][/\ \A r \in swimmer_time_tbl : r \in swimmer_time_tbl'
       /\ \A r \in swimmer_time_tbl' \ swimmer_time_tbl :
              TimeKey(r) \notin Keys(swimmer_time_tbl)
       /\ Cardinality(Keys(swimmer_time_tbl')) = Cardinality(swimmer_time_tbl')
       /\ (\E p \in Procs :
              /\ e_pc[p] = "times" /\ e_pc'[p] = "times_long"
              /\ <<col(CurRecord(p).f, 0), event_style(CurRecord(p).f),
                   event_distance(CurRecord(p).f).val, "SHORT",
                   time_to_miliseconds(
                       SubSeq(col(CurRecord(p).f, 12), 1, TimeWidth)).val>>
                 \in Keys(swimmer_time_tbl))
          => swimmer_time_tbl' = swimmer_time_tbl]_vars

\* the SHORT insert has just run for a key stored with another date
C3_Witness ==
    \E p \in Procs :
        /\ e_pc[p] = "times_long"
        /\ \E r \in swimmer_time_tbl :
              /\ r.swimmer = col(CurRecord(p).f, 0)
              /\ r.style = event_style(CurRecord(p).f)
              /\ r.distance = event_distance(CurRecord(p).f).val
              /\ r.course = "SHORT"
              /\ r.time_official =
                    time_to_miliseconds(
                        SubSeq(col(CurRecord(p).f, 12), 1, TimeWidth)).val
              /\ r.time_date # parse_date(col(CurRecord(p).f, 13)).date

\* the course slots of a record that hold a time and a parseable date
DatedSlots(f) ==
    {c \in {"SHORT", "LONG"} :
        /\ Len(col(f, IF c = "SHORT" THEN 12 ELSE 14)) > 0
        /\ parse_date(col(f, IF c = "SHORT" THEN 13 ELSE 15)).ok}

\* the records of the current file of p that the loop has dealt with
RecordsDone(p) ==
    IF e_pc[p] = "idle" \/ Len(e_files[p]) = 0 THEN {}
    ELSE {CurFile(p)[j] : j \in 1..(e_row[p] - 1)}

\* C4: a record whose birth date does not parse changes nothing in the swimmer
\* directory, its performance step is still executed, and once the record is
\* dealt with each of its course slots with a time and a parseable date is
\* stored.
C4_BadBirthStillImportsTimes ==
    /\ [][\A p \in Procs :
             (/\ e_pc[p] = "row" /\ e_pc'[p] # "row"
              /\ CurRecord(p).ok
              /\ ~parse_date(col(CurRecord(p).f, 7)).ok)
             => (swimmer_tbl' = swimmer_tbl /\ e_pc'[p] = "times")]_vars
    /\ [](\A p \in Procs : \A rec \in RecordsDone(p) :
             (rec.ok /\ ~parse_date(col(rec.f, 7)).ok)
             => \A c \in DatedSlots(rec.f) :
                   \E r \in swimmer_time_tbl :
                       r.swimmer = col(rec.f, 0) /\ r.course = c)

AllFinished == \A p \in Procs : e_pc[p] \in {"done", "panicked"}

\* the tables after the file a is imported and then, by another request, b
\* in a build with overflow checks or in one without
OneAfterTheOther(a, b, checks) ==
    run_file(next_request(run_file(EmptyRun, a, checks)), b, checks)

\* the ids and the keys of the tables are those of the run r
SameIdsAndKeys(r) ==
    /\ Ids(swimmer_tbl) = Ids(r.swimmers)
    /\ Keys(swimmer_time_tbl) = Keys(r.times)

\* C5: when two imports that ran at the same time have ended, whatever the
\* interleaving of their storage writes, there is one swimmer record per id,
\* no two performances share a key, and the swimmer ids and performance keys
\* are those of the two imports run one after the other, in either order.
C5_ConcurrentImportsSafe ==
    AllFinished =>
        /\ Cardinality(Ids(swimmer_tbl)) = Cardinality(swimmer_tbl)
        /\ Cardinality(Keys(swimmer_time_tbl)) = Cardinality(swimmer_time_tbl)
        /\ \A checks \in BOOLEAN :
              /\ SameIdsAndKeys(OneAfterTheOther(e_files[1][1], e_files[2][1], checks))
              /\ SameIdsAndKeys(OneAfterTheOther(e_files[2][1], e_files[1][1], checks))

\* both imports ended, on overlapping records, with the swimmer as request 2
\* wrote it and the performance as request 1 wrote it
C5_Witness ==
    /\ AllFinished
    /\ e_files[1] = << <<RowDoe>> >>
    /\ e_files[2] = << <<RowRoe>> >>
    /\ \E r \in swimmer_tbl : r.id = <<"S", "1">> /\ r.gender = <<"F">>
    /\ \E t \in swimmer_time_tbl : t.course = "SHORT" /\ t.time_date = <<2024, 3, 1>>

\* C6: while a file is imported a second time, after its first import is
\* complete, no step changes the swimmer store or the performance store, and
\* the only change to the audit table is one record appended.
C6_ReuploadSafe ==
    [][(e_file[1] = 2 /\ e_files[1][1] = e_files[1][2])
       => /\ swimmer_tbl' = swimmer_tbl
          /\ swimmer_time_tbl' = swimmer_time_tbl
          /\ \/ entries_load' = entries_load
             \/ /\ Len(entries_load) = 1
                /\ e_pc'[1] = "done"
                /\ Len(entries_load') = 2
                /\ entries_load'[1] = entries_load[1]]_vars

\* the second import of a file with swimmers and performances has completed
C6_Witness ==
    /\ e_pc[1] = "done"
    /\ e_file[1] = 2
    /\ Len(entries_load) = 2
    /\ Cardinality(swimmer_tbl) >= 1
    /\ Cardinality(swimmer_time_tbl) >= 2

\* C7: time_to_miliseconds yields 0 for the empty text and, for a clock text
\* MM:SS.CC, minutes*60000 + seconds*1000 + centiseconds*10; "01:02.34"
\* yields 62340.
C7_EncodeClock ==
    (c_fn = "time_to_miliseconds" /\ c_out.done) =>
        /\ Len(c_in) = 0 => (~c_out.panic /\ ~c_out.overflow /\ c_out.val = 0)
        /\ IsClockText(c_in) =>
              (~c_out.panic /\ ~c_out.overflow /\ c_out.val = ClockValue(c_in))
        /\ c_in = <<"0", "1", ":", "0", "2", ".", "3", "4">> => c_out.val = 62340

\* "01:02.34" has been encoded to 62340
C7_Witness ==
    /\ c_fn = "time_to_miliseconds" /\ c_out.done
    /\ c_in = <<"0", "1", ":", "0", "2", ".", "3", "4">>
    /\ c_out.val = 62340

\* the value of a segment, 0 when it is not a parseable integer
SegmentOrZero(seg) == IF parse_i32(seg).ok THEN parse_i32(seg).val ELSE 0

\* C8: time_to_miliseconds never fails on a non-empty text: a minutes, seconds
\* or centiseconds segment that is not a parseable integer counts 0 and the
\* other segments still contribute.
C8_EncodeNeverFails ==
    (c_fn = "time_to_miliseconds" /\ c_out.done /\ Len(c_in) > 0) =>
        /\ ~c_out.panic
        /\ (Len(split(c_in, ":")) = 2 /\ Len(split(c_in, ".")) = 2) =>
              c_out.val =
                  SegmentOrZero(split_next(c_in, ":")) * 60000
                  + SegmentOrZero(split_next(split_nth1(c_in, ":"), ".")) * 1000
                  + SegmentOrZero(split_last(c_in, ".")) * 10

\* the step of the results handler over a row looks at its cell 0 (it then
\* goes on to cell 1, or panics)
Cell0Examined ==
    /\ r_pc = "rows" /\ ResultsStep
    /\ Len(r_doc[r_row]) >= 1
    /\ r_doc[r_row][1].names = <<>>
    /\ r_locals'.cell_idx >= 1 \/ r_locals'.panic

\* DD:DD.DD and one suffix character, the first minute digit and the first
\* second digit in 0-5
IsSwimClock(v) ==
    /\ Len(v) = 9
    /\ IsClockText(SubSeq(v, 1, 8))
    /\ v[1] \in {"0", "1", "2", "3", "4", "5"}
    /\ v[4] \in {"0", "1", "2", "3", "4", "5"}

\* C9: a cell 0 of the form DD:DD.DD plus one suffix character is decoded to
\* the milliseconds of its first 8 characters, with course LONG for the suffix
\* L, SHORT for S and unset otherwise; any other cell 0 marks the row invalid.
C9_Cell0Decoded ==
    [][Cell0Examined =>
          IF IsSwimClock(r_doc[r_row][1].value)
          THEN /\ r_locals'.swimmer_time.time = ClockValue(r_doc[r_row][1].value)
               /\ r_locals'.swimmer_time.course =
                     (IF r_doc[r_row][1].value[9] = "L" THEN "LONG"
                      ELSE IF r_doc[r_row][1].value[9] = "S" THEN "SHORT"
                      ELSE "")
          ELSE ~r_locals'.panic /\ ~r_locals'.valid_row]_vars

\* the table of the style normalizer, as <<code, style>>
StyleTable ==
    {<<<<"F", "r">>, "FREESTYLE">>,
     <<<<"F", "r", "e", "e">>, "FREESTYLE">>,
     <<<<"B", "k">>, "BACKSTROKE">>,
     <<<<"B", "a", "c", "k">>, "BACKSTROKE">>,
     <<<<"B", "r">>, "BREASTSTROKE">>,
     <<<<"B", "r", "e", "a", "s", "t">>, "BREASTSTROKE">>,
     <<<<"F", "L">>, "BUTTERFLY">>,
     <<<<"F", "l", "y">>, "BUTTERFLY">>,
     <<<<"I", "M">>, "MEDLEY">>,
     <<<<"I", ".", "M">>, "MEDLEY">>}

\* C10: convert_style is total: a code of the table yields its style, every
\* other text yields the unknown value, which is none of the five styles.
C10_StyleTotal ==
    (c_fn = "convert_style" /\ c_out.done) =>
        /\ ~c_out.panic
        /\ c_out.val \in KnownStyles \cup {UnknownStyle}
        /\ \A e \in StyleTable : c_in = e[1] => c_out.val = e[2]
        /\ (\A e \in StyleTable : c_in # e[1]) => c_out.val = UnknownStyle
        /\ UnknownStyle \notin KnownStyles

\* "Fl", which differs from the code "FL" by case, has been normalized to the
\* unknown value
C10_Witness ==
    /\ c_fn = "convert_style" /\ c_out.done
    /\ c_in = <<"F", "l">>
    /\ c_out.val = UnknownStyle

\* C11: the file of the one record S1 | Doe John | m | Jan-02-00 | 100 Free |
\* 01:05.23 Mar-01-24, imported into empty stores, leaves exactly the swimmer
\* S1 (first name John, last name Doe), exactly the performance (S1,
\* FREESTYLE, 100, SHORT, 65230, 2024-03-01) and one audit record with swimmer
\* count 1 and entry count 1.
C11_OneRowEndToEnd ==
    (e_files[1] = << <<RowDoe>> >> /\ e_pc[1] = "done") =>
        /\ swimmer_tbl =
              {[id |-> <<"S", "1">>,
                name_first |-> <<"J", "o", "h", "n">>,
                name_last |-> <<"D", "o", "e">>,
                gender |-> <<"M">>,
                birth_date |-> <<2000, 1, 2>>]}
        /\ swimmer_time_tbl =
              {[swimmer |-> <<"S", "1">>, style |-> "FREESTYLE", distance |-> 100,
                course |-> "SHORT", time_official |-> 65230,
                time_date |-> <<2024, 3, 1>>]}
        /\ Len(entries_load) = 1
        /\ entries_load[1].num_swimmers = 1
        /\ entries_load[1].num_entries = 1

\* the import of the one-record file has completed
C11_Witness ==
    /\ e_files[1] = << <<RowDoe>> >>
    /\ e_pc[1] = "done"
    /\ Len(entries_load) = 1
    /\ Cardinality(swimmer_time_tbl) = 1

\* C12: every import runs to completion; when it has, the audit table holds
\* one record per file; and an audit record is inserted only by a request that
\* has consumed every record of its file, so after the swimmer and performance
\* writes of all of them.
C12_OneAuditAfterAllWrites ==
    /\ \A p \in Procs : (e_pc[p] = "idle") ~> (e_pc[p] = "done")
    /\ [](e_pc[1] = "done" => Len(entries_load) = Len(e_files[1]))
    /\ [][entries_load' # entries_load =>
             /\ Len(entries_load') = Len(entries_load) + 1
             /\ \E p \in Procs :
                   /\ e_pc[p] = "register"
                   /\ e_row[p] = Len(CurFile(p)) + 1]_vars

\* the course slot c of the record f holds a time
SlotFilled(f, c) == Len(col(f, IF c = "SHORT" THEN 12 ELSE 14)) > 0

\* the date of the course slot c of the record f, parsed
SlotDate(f, c) == parse_date(col(f, IF c = "SHORT" THEN 13 ELSE 15))

OtherCourse(c) == IF c = "SHORT" THEN "LONG" ELSE "SHORT"

\* C13: a date that does not parse skips only its own course slot: once a
\* record with two filled slots is dealt with, one date unparseable and the
\* other parseable, the performance of the slot with the parseable date is
\* stored under that date.
C13_DateFailureSkipsOnlyItsSlot ==
    \A p \in Procs : \A rec \in RecordsDone(p) : \A c \in {"SHORT", "LONG"} :
        (/\ rec.ok
         /\ SlotFilled(rec.f, c) /\ ~SlotDate(rec.f, c).ok
         /\ SlotFilled(rec.f, OtherCourse(c)) /\ SlotDate(rec.f, OtherCourse(c)).ok)
        => \E r \in swimmer_time_tbl :
              /\ r.swimmer = col(rec.f, 0)
              /\ r.course = OtherCourse(c)
              /\ r.time_date = SlotDate(rec.f, OtherCourse(c)).date

\* the distinct swimmer ids (column 0) of the well-formed records of a file
FileSwimmerIds(file) == {col(file[j].f, 0) : j \in {i \in 1..Len(file) : file[i].ok}}

\* C14: the swimmer count of the audit record of a file is the number of
\* distinct swimmer ids over the well-formed records of the file, records
\* with an unparseable birth date included.
C14_AuditCountsEverySwimmer ==
    \A k \in 1..Len(entries_load) :
        entries_load[k].num_swimmers = Cardinality(FileSwimmerIds(e_files[1][k]))

\* the number of well-formed records among the first n of a file
WellFormed(file, n) == Cardinality({j \in 1..n : file[j].ok})

\* C15: the entry count of the audit record of a file is the number of
\* well-formed records of the file, whether or not a swimmer or a performance
\* of the record was inserted; the running counter is the number of
\* well-formed records dealt with; and the step over a record the CSV reader
\* rejects writes nothing and leaves the counter and the swimmer set alone.
C15_EntriesCounter ==
    /\ [](\A k \in 1..Len(entries_load) :
             entries_load[k].num_entries
                 = WellFormed(e_files[1][k], Len(e_files[1][k])))
    /\ [](e_pc[1] \in {"row", "register"} =>
             e_num[1] = WellFormed(CurFile(1), e_row[1] - 1))
    /\ [][\A p \in Procs :
             (e_pc[p] = "row" /\ ~CurRecord(p).ok /\ e_row'[p] # e_row[p])
             => UNCHANGED <<store_vars, e_swimmers, e_num>>]_vars

\* a file of a rejected record and of a record that inserted neither a
\* swimmer nor a performance is imported, with entry count 1
C15_Witness ==
    /\ e_pc[1] = "done"
    /\ e_files[1] = << <<MalformedRecord, RowPoe>> >>
    /\ swimmer_tbl = {} /\ swimmer_time_tbl = {}
    /\ Len(entries_load) = 1
    /\ entries_load[1].num_entries = 1

\* a header row: its first cell holds names
IsHeader(row) == Len(row) >= 1 /\ Len(row[1].names) > 0

\* the lookup the results handler is suspended in returns in this step, and
\* the swimmers it may return
LookupReturns == r_pc = "lookup" /\ r_locals' # r_locals

LookupFound ==
    search_swimmer_by_name(swimmer_tbl, lookup_name(r_locals, r_doc[r_row]))

\* C16: a lookup that fails leaves the current swimmer empty and invalid and
\* reports nothing, a lookup that succeeds leaves it valid and one of the
\* swimmers found; between lookups the current swimmer changes only when the
\* next file is opened; and a row is reported only while the current swimmer
\* is valid, with the id and the names of the current swimmer.
C16_FailedHeaderInvalidates ==
    /\ [][LookupReturns =>
             /\ r_out' = r_out
             /\ IF LookupFound = {}
                THEN ~r_valid' /\ r_swimmer' = EmptySwimmer
                ELSE r_valid' /\ r_swimmer' \in LookupFound]_vars
    /\ [][(r_valid' # r_valid \/ r_swimmer' # r_swimmer)
             => (r_pc = "file" \/ LookupReturns)]_vars
    /\ [][RowReported =>
             /\ r_valid
             /\ r_out'[Len(r_out')].id = r_swimmer.id
             /\ r_out'[Len(r_out')].first_name = r_swimmer.first_name
             /\ r_out'[Len(r_out')].last_name = r_swimmer.last_name]_vars

\* a header that resolves, a header that does not, then a data row: nothing
\* is reported
C16_Witness ==
    /\ r_pc = "done"
    /\ r_files = <<NamedFile(<<HdrDoe, HdrNobody, DataLong>>)>>
    /\ swimmer_tbl # {}
    /\ ~r_valid
    /\ r_out = <<printed_file(FileName)>>

\* the text of cell 2 holds a distance that parses
DistanceParses(v) == split_has_nth1(v, " ") /\ parse_i32(split_nth1(v, " ")).ok

\* C17: a row is reported only if the current swimmer is valid, the row is no
\* header row, its cell 0 is a swim clock and its cell 2 holds a distance that
\* parsed; and a row whose distance does not parse is not reported while the
\* importer goes on to the next row.
C17_AcceptedRowComplete ==
    [][RowReported =>
          /\ r_valid /\ r_valid'
          /\ ~IsHeader(r_doc[r_row])
          /\ Len(r_doc[r_row]) >= 3
          /\ IsSwimClock(r_doc[r_row][1].value)
          /\ DistanceParses(r_doc[r_row][3].value)]_vars
    /\ [][(/\ r_pc = "rows" /\ ResultsStep /\ r_valid
           /\ Len(r_doc[r_row]) >= 3
           /\ \A k \in 1..Len(r_doc[r_row]) : r_doc[r_row][k].names = <<>>
           /\ IsSwimClock(r_doc[r_row][1].value)
           /\ r_doc[r_row][1].value[9] \notin Whitespace
           /\ split_has_nth1(r_doc[r_row][3].value, " ")
           /\ ~DistanceParses(r_doc[r_row][3].value))
          => (r_out' = r_out /\ r_row' = r_row + 1 /\ r_pc' # "panicked")]_vars

\* C18: every stored performance references a stored swimmer.
C18_PerformanceHasSwimmer ==
    \A t \in swimmer_time_tbl : \E x \in swimmer_tbl : x.id = t.swimmer

\* C19: every stored performance has one of the five styles, never the
\* unknown value of convert_style.
C19_NoUnknownStyleStored ==
    \A t \in swimmer_time_tbl : t.style \in KnownStyles /\ t.style # UnknownStyle

\* the event descriptor or a filled time of the record f has a segment that
\* is no number
MalformedNumeric(f) ==
    \/ ~event_distance(f).ok
    \/ \E n \in {12, 14} :
          /\ Len(col(f, n)) >= TimeWidth
          /\ time_to_miliseconds(SubSeq(col(f, n), 1, TimeWidth)).panic

\* C20: a record with a malformed numeric field does not stop the batch: once
\* import_times is reached for it, the import still comes to its end, with
\* one audit record per file.
C20_MalformedNumberRecoverable ==
    (\E p \in Procs : e_pc[p] = "times" /\ MalformedNumeric(CurRecord(p).f))
        ~> (e_pc[1] = "done" /\ Len(entries_load) = Len(e_files[1]))

=============================================================================
